---- MODULE Spec2Model ----
(***************************************************************************)
(* Model of the web crawler of gonzaloalonso123/web_crawler: the crawl     *)
(* loop of crawlWebsite (TypeScript version, src/unnamed/part_000 lines    *)
(* 228-385), its link filter isExternalOrSocialMediaLink and the           *)
(* environment it talks to (the web, the file system, the progress         *)
(* callback), and, as a second specification, the crawl-progress route     *)
(* with its registry of active jobs and createZipArchive, and, as a third, *)
(* two calls of crawlWebsite that run side by side on one clock and one    *)
(* disk.  URL strings are TLA+ strings and the string tests of the source  *)
(* (endsWith, includes, startsWith, extname) are computed character by     *)
(* character.                                                              *)
(***************************************************************************)
EXTENDS Integers, Sequences, FiniteSets, TLC

(***************************************************************************)
(* Bounds of the model.                                                    *)
(***************************************************************************)
\* number of <a> elements a served page holds at most
MaxLinks == 2
\* number of <img> elements an ordinary page holds at most
MaxImgs == 1
\* number of identifiers the gallery site may consume in one crawl
MaxImages == 27
\* number of gallery images that are not the plain, downloadable picture
MaxFaults == 1

(***************************************************************************)
(* Strings.                                                                *)
(***************************************************************************)
\* String.prototype.startsWith
StartsWith(s, p) == Len(s) >= Len(p) /\ SubSeq(s, 1, Len(p)) = p

\* String.prototype.endsWith
EndsWith(s, t) == Len(s) >= Len(t) /\ SubSeq(s, Len(s) - Len(t) + 1, Len(s)) = t

\* String.prototype.includes
Includes(s, t) == \E i \in 1..(Len(s) - Len(t) + 1) : SubSeq(s, i, i + Len(t) - 1) = t

\* position of the first character of s, at or after from, that is in cs; Len(s)+1 if none
FirstOf(s, cs, from) ==
  LET hits == {i \in from..Len(s) : SubSeq(s, i, i) \in cs}
  IN  IF hits = {} THEN Len(s) + 1 ELSE CHOOSE i \in hits : \A j \in hits : i <= j

(***************************************************************************)
(* URLs: new URL(s), .hostname, .href, new URL(rel, base), path.extname.   *)
(***************************************************************************)
\* the scheme prefix of an http(s) URL string, "" if it has none
SchemeOf(s) ==
  IF StartsWith(s, "https://") THEN "https://"
  ELSE IF StartsWith(s, "http://") THEN "http://"
  ELSE ""

\* new URL(s).hostname for an http(s) URL string
HostOf(s) ==
  LET from == Len(SchemeOf(s)) + 1
  IN  SubSeq(s, from, FirstOf(s, {"/", "#", "?"}, from) - 1)

\* new URL(s) does not throw (http and https URLs with a host)
IsValidURL(s) == SchemeOf(s) # "" /\ HostOf(s) # ""

\* new URL(s).hostname
Hostname(s) == HostOf(s)

\* new URL(s).href: the serialisation always carries a path
Href(s) ==
  LET from == Len(SchemeOf(s)) + Len(HostOf(s)) + 1
      tail == SubSeq(s, from, Len(s))
  IN  SchemeOf(s) \o HostOf(s) \o (IF StartsWith(tail, "/") THEN tail ELSE "/" \o tail)

\* scheme and host of a URL
Origin(s) == SchemeOf(s) \o HostOf(s)

\* the URL without its fragment
StripHash(s) == SubSeq(s, 1, FirstOf(s, {"#"}, 1) - 1)

\* the value new URL(rel, base) throws on
INVALID == "<TypeError: Invalid URL>"

\* new URL(rel, base).href for the reference forms the site serves
Resolve(rel, base) ==
  IF StartsWith(rel, "data:") THEN rel
  ELSE IF IsValidURL(rel) THEN Href(rel)
  ELSE IF SchemeOf(rel) # "" THEN INVALID
  ELSE IF StartsWith(rel, "/") THEN Origin(base) \o rel
  ELSE IF StartsWith(rel, "#") THEN StripHash(Href(base)) \o rel
  ELSE INVALID

\* position of the last character of s between lo and hi that is c; 0 if none
LastIn(s, c, lo, hi) ==
  IF \A i \in lo..hi : SubSeq(s, i, i) # c THEN 0
  ELSE CHOOSE i \in lo..hi :
         SubSeq(s, i, i) = c /\ \A j \in (i + 1)..hi : SubSeq(s, j, j) # c

\* position of the last character of s that is not c; 0 if none
LastNot(s, c) ==
  LET hits == {i \in 1..Len(s) : SubSeq(s, i, i) # c}
  IN  IF hits = {} THEN 0 ELSE CHOOSE i \in hits : \A j \in hits : i >= j

\* path.extname applied to a URL string: trailing slashes are ignored, the
\* extension starts at the last dot of the last path segment
ExtName(s) ==
  LET end   == LastNot(s, "/")
      slash == LastIn(s, "/", 1, end)
      dot   == LastIn(s, ".", slash + 1, end)
  IN  IF dot <= slash + 1 THEN "" ELSE SubSeq(s, dot, end)

(***************************************************************************)
(* The link filter.                                                        *)
(***************************************************************************)
socialMediaDomains ==
  << "facebook.com", "twitter.com", "instagram.com", "linkedin.com",
     "youtube.com", "pinterest.com", "tiktok.com", "reddit.com",
     "tumblr.com", "snapchat.com", "whatsapp.com", "telegram.org",
     "discord.com", "medium.com", "t.co", "fb.me", "youtu.be", "bit.ly",
     "goo.gl", "tinyurl.com", "ow.ly", "is.gd" >>

\* the loop over socialMediaDomains with the exact comparison only
IsSocialHostExact(hostname) ==
  \E i \in 1..Len(socialMediaDomains) : hostname = socialMediaDomains[i]

\* the loop over socialMediaDomains
IsSocialHost(hostname) ==
  \E i \in 1..Len(socialMediaDomains) :
     EndsWith(hostname, socialMediaDomains[i]) \/ hostname = socialMediaDomains[i]

\* the test on the base domain
IsExternalHost(hostname, baseDomain) ==
  hostname # baseDomain /\ ~EndsWith(hostname, "." \o baseDomain)

isExternalOrSocialMediaLink(hostname, baseDomain) ==
  IsSocialHost(hostname) \/ IsExternalHost(hostname, baseDomain)

\* the condition of the if that guards queue.push, without the two membership tests
SameDomainNoHash(url, linkHostname, dom) ==
  /\ (linkHostname = dom \/ EndsWith(linkHostname, "." \o dom))
  /\ ~Includes(url, "#")

(***************************************************************************)
(* The environment: start URLs a caller may pass, and what the web serves. *)
(***************************************************************************)
\* start URLs: a bare origin, its normalised spelling, a host that ends with
\* the characters of a denylist entry, a denylisted host, an image gallery
\* and a string that is not a URL
StartUrls ==
  { "https://ex.io", "https://ex.io/", "https://scout.co/", "https://t.co/",
    "https://pix.io/", "ex.io" }

\* the host whose pages are image galleries
GalleryHost == "pix.io"

IsGallery(u) == Hostname(u) = GalleryHost

\* href attributes of the <a> elements an ordinary page may hold
LinkHrefs ==
  { "", "http://", "#top", "https://ex.io/", "https://w.ex.io/",
    "https://notex.io/", "https://m.t.co/", "https://scout.co/b" }

\* href attributes of the <a> elements of the page at u; the gallery has one page
PageHrefs(u) == IF IsGallery(u) THEN {""} ELSE LinkHrefs

\* the plain picture of the gallery
GalleryImg == [src |-> "/a.png", alt |-> "pic"]

\* <img> elements (src and alt attributes) an ordinary page may hold
ImgElems ==
  { [src |-> "", alt |-> "x"], [src |-> "http://", alt |-> "x"],
    [src |-> "data:x", alt |-> "x"], [src |-> "/a", alt |-> ""] }

\* <img> elements of the page at u
PageImgs(u) ==
  IF IsGallery(u)
    THEN {GalleryImg, [src |-> "data:x", alt |-> "x"]}
    ELSE ImgElems

\* outcomes of an image download: written, non-2xx, fetch rejects, writeFile rejects
ImgOutcomes(u) ==
  IF IsGallery(u) THEN {"ok", "status"} ELSE {"ok", "status", "neterr", "writeerr"}

\* document.title of the page at u
TitleOf(u) == IF Hostname(u) = "w.ex.io" THEN "" ELSE "Home"

\* Date.now() at the start of the crawl
Now == "1700000000000"

(***************************************************************************)
(* Pure helpers of crawlWebsite.                                           *)
(***************************************************************************)
\* String.fromCharCode(65 + n): the identifier without the wrap
LetterNoWrap(n) ==
  IF n < 26 THEN SubSeq("ABCDEFGHIJKLMNOPQRSTUVWXYZ", n + 1, n + 1) ELSE "["

\* String.fromCharCode(65 + (n % 26))
Letter(n) == SubSeq("ABCDEFGHIJKLMNOPQRSTUVWXYZ", (n % 26) + 1, (n % 26) + 1)

\* path.join(process.cwd(), "tmp", sanitize(`${domain}-crawl-${Date.now()}`))
\* for the reading now of Date.now()
OutputDirAt(dom, now) == "tmp/" \o dom \o "-crawl-" \o now

\* the directory of the crawl of Spec
OutputDir(dom) == OutputDirAt(dom, Now)

\* path.join(outputDir, "images")
ImagesDirIn(outputDir) == outputDir \o "/images"

\* the images directory of the crawl of Spec
ImagesDir(dom) == ImagesDirIn(OutputDir(dom))

\* path.join(imagesDir, `image_${imageId}${path.extname(imgUrl) || ".jpg"}`)
ImagePathIn(outputDir, id, url) ==
  ImagesDirIn(outputDir) \o "/image_" \o id \o (IF ExtName(url) = "" THEN ".jpg" ELSE ExtName(url))

\* the image file of the crawl of Spec
ImagePath(dom, id, url) == ImagePathIn(OutputDir(dom), id, url)

\* path.join(outputDir, `${domain}-content.txt`)
OutputFileIn(outputDir, dom) == outputDir \o "/" \o dom \o "-content.txt"

\* the content file of the crawl of Spec
OutputFile(dom) == OutputFileIn(OutputDir(dom), dom)

\* Math.min(95, Math.round((pagesProcessed / (pagesProcessed + queue.length)) * 100));
\* 0 / 0 is NaN, and Math.round and Math.min keep NaN
\* the value is told apart from a number by the flag isNaN
Progress(p, q) ==
  IF p + q = 0 THEN [isNaN |-> TRUE, value |-> 0]
  ELSE LET r == (200 * p + (p + q)) \div (2 * (p + q))
       IN  [isNaN |-> FALSE, value |-> IF r < 95 THEN r ELSE 95]

\* the lines pushed for a page before its text
HeaderLines(u) ==
  << [kind |-> "PAGE", text |-> (IF TitleOf(u) = "" THEN "No Title" ELSE TitleOf(u))],
     [kind |-> "URL", text |-> u] >>

\* the line pushed for the cleaned text of a page
TextLine(u) == [kind |-> "TEXT", text |-> u]

\* the reference line of an image
ImageLine(id, alt) ==
  [kind |-> "IMG", text |-> id \o ":" \o (IF alt = "" THEN "No description" ELSE alt)]

\* the glossary's in-scope notion: same host or a true subdomain, not a denylist
\* entry nor a subdomain of one, no fragment marker
IsDenylisted(h) ==
  \E i \in 1..Len(socialMediaDomains) :
     h = socialMediaDomains[i] \/ EndsWith(h, "." \o socialMediaDomains[i])

InScope(u, dom) ==
  /\ (Hostname(u) = dom \/ EndsWith(Hostname(u), "." \o dom))
  /\ ~IsDenylisted(Hostname(u))
  /\ ~Includes(u, "#")

(***************************************************************************)
(* State.                                                                  *)
(***************************************************************************)
VARIABLES
  startUrl,        \* argument of crawlWebsite
  hasCallback,     \* a progressCallback was passed
  pc,              \* position in crawlWebsite
  domain,          \* urlObj.hostname
  visited,         \* the Set visited
  queue,           \* the array queue
  contentLines,    \* the array contentLines
  imageCounter,
  pagesProcessed,
  currentUrl,
  imgIdx,          \* <img> elements of the current page handled so far
  linkIdx,         \* <a> elements of the current page handled so far
  image,           \* imageId and imgUrl of the image at hand
  linkUrl,         \* linkUrl of the link at hand
  result,          \* the value crawlWebsite resolved to
  streamClosed,    \* the stream behind the callback was closed by the client
  events,          \* the progress values the callback was called with
  inflight,        \* outstanding fetch requests
  pageFetches,     \* the page URLs fetch was called with, in order
  failedPages,     \* the pages whose fetch rejected or was not 2xx
  fetchedPages,    \* the pages whose fetch returned 2xx
  enqLog,          \* the URLs pushed to queue, in order
  visitLog,        \* the URLs added to visited, in order
  depth,           \* link distance at which each enqueued URL was discovered
  inScopeFound,    \* in-scope links held by the 2xx pages
  imgSeen,         \* the resolvable non-data images met, with their ids
  imageWrites,     \* the image file paths writeFile succeeded on, in order
  contentWrites,   \* the contents the content file was written with, in order
  dirs,            \* directories created
  faults           \* gallery images so far that were not plain and downloadable

\* the state of the crawl-progress route and of createZipArchive
VARIABLES
  rpc,             \* position of each request in GET and in start(controller)
  rurl,            \* the url parameter of each request
  activeJobs,      \* the Map activeJobs: job id -> the request that set it
  sse,             \* the events enqueued on each request's controller, in order
  zipPromise,      \* the promise createZipArchive returned to each request
  output,          \* the write stream of each request's archive
  warned,          \* console.warn calls of each request's archive
  progressSent     \* calls of each request's progressCallback below 100

\* two calls of crawlWebsite in one process and what they share
VARIABLES
  runs,            \* the local variables of each call
  clock,           \* milliseconds that have passed since the first call
  disk             \* the directories made and files written, with the call that did it

vars ==
  << startUrl, hasCallback, pc, domain, visited, queue, contentLines,
     imageCounter, pagesProcessed, currentUrl, imgIdx, linkIdx, image,
     linkUrl, result, streamClosed, events, inflight, pageFetches, failedPages, fetchedPages,
     enqLog, visitLog, depth, inScopeFound, imgSeen, imageWrites,
     contentWrites, dirs, faults,
     rpc, rurl, activeJobs, sse, zipPromise, output, warned, progressSent,
     runs, clock, disk >>

\* the variables of two concurrent calls
pairVars == << runs, clock, disk >>

\* the variables of the serving layer
serveVars ==
  << rpc, rurl, activeJobs, sse, zipPromise, output, warned, progressSent >>

\* the variables of the crawl proper
crawlVars ==
  << visited, queue, contentLines, imageCounter, pagesProcessed, currentUrl,
     imgIdx, linkIdx, image, linkUrl >>

\* the observations of the environment
envVars ==
  << streamClosed, events, inflight, pageFetches, failedPages, fetchedPages,
     enqLog, visitLog, depth, inScopeFound, imgSeen, imageWrites,
     contentWrites, dirs, faults >>

NoImage == [id |-> "", url |-> ""]

\* the promise of crawlWebsite has not settled
Pending == [state |-> "pending", success |-> FALSE]

\* the object returned at the end of the try block
Success(dir, pages, images) ==
  [state |-> "returned", success |-> TRUE, outputDir |-> dir,
   pagesVisited |-> pages, imagesDownloaded |-> images]

\* the object returned by the catch block
Failure(msg) ==
  [state |-> "returned", success |-> FALSE, error |-> msg]

\* the requests the server receives
Reqs == {"r1", "r2", "r3"}

\* no request has arrived: the module was loaded and activeJobs is an empty Map
ServeIdle ==
  /\ rpc = [r \in Reqs |-> "idle"]
  /\ rurl = [r \in Reqs |-> ""]
  /\ activeJobs = << >>
  /\ sse = [r \in Reqs |-> << >>]
  /\ zipPromise = [r \in Reqs |-> "none"]
  /\ output = [r \in Reqs |-> "none"]
  /\ warned = [r \in Reqs |-> 0]
  /\ progressSent = [r \in Reqs |-> 0]

\* the calls of crawlWebsite that run side by side
Runs == {"A", "B"}

\* a call that has not been made yet
IdleRun ==
  [pc |-> "idle", startUrl |-> "", domain |-> "", outputDir |-> "",
   visited |-> {}, queue |-> << >>, contentLines |-> << >>, imageCounter |-> 0,
   pagesProcessed |-> 0, currentUrl |-> "", image |-> NoImage, link |-> "",
   result |-> Pending]

\* no call was made and nothing is on the disk
PairIdle ==
  /\ runs = [c \in Runs |-> IdleRun]
  /\ clock = 0
  /\ disk = {}

Init ==
  /\ startUrl \in StartUrls
  /\ hasCallback \in BOOLEAN
  /\ ServeIdle
  /\ PairIdle
  /\ pc = "start"
  /\ domain = ""
  /\ visited = {}
  /\ queue = << >>
  /\ contentLines = << >>
  /\ imageCounter = 0
  /\ pagesProcessed = 0
  /\ currentUrl = ""
  /\ imgIdx = 0
  /\ linkIdx = 0
  /\ image = NoImage
  /\ linkUrl = ""
  /\ result = Pending
  /\ streamClosed = FALSE
  /\ events = << >>
  /\ inflight = 0
  /\ pageFetches = << >>
  /\ failedPages = {}
  /\ fetchedPages = {}
  /\ enqLog = << >>
  /\ visitLog = << >>
  /\ depth = << >>
  /\ inScopeFound = {}
  /\ imgSeen = << >>
  /\ imageWrites = << >>
  /\ contentWrites = << >>
  /\ dirs = {}
  /\ faults = 0

(***************************************************************************)
(* crawlWebsite, step by step.  Each await is the end of an action.        *)
(***************************************************************************)
\* new URL(startUrl): a start URL that does not parse throws into the outer catch
ParseStart ==
  /\ pc = "start"
  /\ IF IsValidURL(startUrl)
       THEN /\ domain' = Hostname(startUrl)
            /\ pc' = "mkdir"
            /\ UNCHANGED result
       ELSE /\ result' = Failure("Invalid URL")
            /\ pc' = "done"
            /\ UNCHANGED domain
  /\ UNCHANGED << startUrl, hasCallback, crawlVars, envVars >>
  /\ UNCHANGED << serveVars, pairVars >>

\* mkdir outside the try block: its rejection rejects the promise of crawlWebsite
MakeDirsRejects ==
  /\ pc = "mkdir"
  /\ \E ok \in BOOLEAN :
       IF ok
         THEN /\ dirs' = dirs \cup {OutputDir(domain), ImagesDir(domain)}
              /\ visited' = {}
              /\ queue' = << startUrl >>
              /\ contentLines' = << >>
              /\ imageCounter' = 0
              /\ pagesProcessed' = 0
              /\ enqLog' = << startUrl >>
              /\ depth' = (startUrl :> 0)
              /\ pc' = "loop"
              /\ UNCHANGED result
         ELSE /\ result' = [state |-> "rejected", success |-> FALSE]
              /\ pc' = "done"
              /\ UNCHANGED << dirs, visited, queue, contentLines, imageCounter,
                              pagesProcessed, enqLog, depth >>
  /\ UNCHANGED << startUrl, hasCallback, domain, currentUrl, imgIdx, linkIdx,
                  image, linkUrl, streamClosed, events, inflight, pageFetches,
                  failedPages, fetchedPages, visitLog, inScopeFound, imgSeen,
                  imageWrites, contentWrites, faults >>
  /\ UNCHANGED << serveVars, pairVars >>

\* the two mkdir calls and the initialisation of the crawl variables
MakeDirs ==
  /\ pc = "mkdir"
  /\ \E ok \in BOOLEAN :
       IF ok
         THEN /\ dirs' = dirs \cup {OutputDir(domain), ImagesDir(domain)}
              /\ visited' = {}
              /\ queue' = << startUrl >>
              /\ contentLines' = << >>
              /\ imageCounter' = 0
              /\ pagesProcessed' = 0
              /\ enqLog' = << startUrl >>
              /\ depth' = (startUrl :> 0)
              /\ pc' = "loop"
              /\ UNCHANGED result
         ELSE /\ result' = Failure("EACCES: permission denied, mkdir")
              /\ pc' = "done"
              /\ UNCHANGED << dirs, visited, queue, contentLines, imageCounter,
                              pagesProcessed, enqLog, depth >>
  /\ UNCHANGED << startUrl, hasCallback, domain, currentUrl, imgIdx, linkIdx,
                  image, linkUrl, streamClosed, events, inflight, pageFetches,
                  failedPages, fetchedPages, visitLog, inScopeFound, imgSeen,
                  imageWrites, contentWrites, faults >>
  /\ UNCHANGED << serveVars, pairVars >>

\* a loop that does not visit a URL found deeper than one link from the start
DequeueDepthBound ==
  /\ pc = "loop"
  /\ queue # << >>
  /\ queue' = Tail(queue)
  /\ IF Head(queue) \in visited \/ depth[Head(queue)] > 1
       THEN UNCHANGED << visited, visitLog, currentUrl, pc >>
       ELSE /\ visited' = visited \cup {Head(queue)}
            /\ visitLog' = Append(visitLog, Head(queue))
            /\ currentUrl' = Head(queue)
            /\ pc' = IF hasCallback THEN "callback" ELSE "fetch"
  /\ UNCHANGED << startUrl, hasCallback, domain, contentLines, imageCounter,
                  pagesProcessed, imgIdx, linkIdx, image, linkUrl, result,
                  streamClosed, events, inflight, pageFetches, failedPages,
                  fetchedPages, enqLog, depth, inScopeFound, imgSeen, imageWrites,
                  contentWrites, dirs, faults >>
  /\ UNCHANGED << serveVars, pairVars >>

\* queue.shift(), the visited check and visited.add
Dequeue ==
  /\ pc = "loop"
  /\ queue # << >>
  /\ queue' = Tail(queue)
  /\ IF Head(queue) \in visited
       THEN UNCHANGED << visited, visitLog, currentUrl, pc >>
       ELSE /\ visited' = visited \cup {Head(queue)}
            /\ visitLog' = Append(visitLog, Head(queue))
            /\ currentUrl' = Head(queue)
            /\ pc' = IF hasCallback THEN "callback" ELSE "fetch"
  /\ UNCHANGED << startUrl, hasCallback, domain, contentLines, imageCounter,
                  pagesProcessed, imgIdx, linkIdx, image, linkUrl, result,
                  streamClosed, events, inflight, pageFetches, failedPages,
                  fetchedPages, enqLog, depth, inScopeFound, imgSeen, imageWrites,
                  contentWrites, dirs, faults >>
  /\ UNCHANGED << serveVars, pairVars >>

\* progressCallback(progress, status) before the fetch; the callback is called
\* and throws once the client has closed the stream, and the page's catch
\* takes over
ProgressCallback ==
  /\ pc = "callback"
  /\ \E closes \in BOOLEAN :
       IF streamClosed \/ closes
         THEN /\ streamClosed' = TRUE
              /\ pc' = "loop"
         ELSE /\ pc' = "fetch"
              /\ UNCHANGED streamClosed
  /\ events' = Append(events, Progress(pagesProcessed, Len(queue)))
  /\ UNCHANGED << startUrl, hasCallback, domain, crawlVars, result, inflight,
                  pageFetches, failedPages, fetchedPages, enqLog, visitLog,
                  depth, inScopeFound, imgSeen, imageWrites, contentWrites,
                  dirs, faults >>
  /\ UNCHANGED << serveVars, pairVars >>

\* fetch(currentUrl) is called
IssueFetch ==
  /\ pc = "fetch"
  /\ pageFetches' = Append(pageFetches, currentUrl)
  /\ inflight' = inflight + 1
  /\ pc' = "page"
  /\ UNCHANGED << startUrl, hasCallback, domain, crawlVars, result,
                  streamClosed, events, failedPages, fetchedPages, enqLog,
                  visitLog, depth, inScopeFound, imgSeen, imageWrites,
                  contentWrites, dirs, faults >>
  /\ UNCHANGED << serveVars, pairVars >>

\* a page fetch failure that is not caught per page: it reaches the outer catch
PageFetchAborts ==
  /\ pc = "page"
  /\ inflight' = inflight - 1
  /\ failedPages' = failedPages \cup {currentUrl}
  /\ result' = Failure("fetch failed")
  /\ pc' = "done"
  /\ UNCHANGED << startUrl, hasCallback, domain, crawlVars, streamClosed,
                  events, pageFetches, fetchedPages, enqLog, visitLog, depth,
                  inScopeFound, imgSeen, imageWrites, contentWrites, dirs,
                  faults >>
  /\ UNCHANGED << serveVars, pairVars >>

\* the fetch rejects (caught by the page's catch) or the status is not 2xx (continue)
PageFetchFails ==
  /\ pc = "page"
  /\ \E kind \in {"neterr", "status"} :
       /\ inflight' = inflight - 1
       /\ failedPages' = failedPages \cup {currentUrl}
       /\ pc' = "loop"
  /\ UNCHANGED << startUrl, hasCallback, domain, crawlVars, result,
                  streamClosed, events, pageFetches, fetchedPages, enqLog,
                  visitLog, depth, inScopeFound, imgSeen, imageWrites,
                  contentWrites, dirs, faults >>
  /\ UNCHANGED << serveVars, pairVars >>

\* a 2xx page with whitelist content elements: header, URL line and text are pushed
PageFetched ==
  /\ pc = "page"
  /\ inflight' = inflight - 1
  /\ fetchedPages' = fetchedPages \cup {currentUrl}
  /\ contentLines' = contentLines \o HeaderLines(currentUrl) \o << TextLine(currentUrl) >>
  /\ imgIdx' = 0
  /\ pc' = "images"
  /\ UNCHANGED << startUrl, hasCallback, domain, visited, queue, imageCounter,
                  pagesProcessed, currentUrl, linkIdx, image, linkUrl, result,
                  streamClosed, events, pageFetches, failedPages, enqLog,
                  visitLog, depth, inScopeFound, imgSeen, imageWrites,
                  contentWrites, dirs, faults >>
  /\ UNCHANGED << serveVars, pairVars >>

\* the in-scope URLs the <a> elements of the page at u may resolve to
InScopeLinks(u, dom) ==
  {l \in {Resolve(h, u) : h \in PageHrefs(u) \ {""}} : l # INVALID /\ InScope(l, dom)}

\* a 2xx page with no whitelist element: extractCleanContent reaches
\* getAllTextNodes, whose free variable document is not defined in the server
\* module; the ReferenceError is caught by the page's catch after the header
\* and URL line were pushed, and the page's images and links are not looked at
PageCleanThrows ==
  /\ pc = "page"
  /\ inflight' = inflight - 1
  /\ fetchedPages' = fetchedPages \cup {currentUrl}
  /\ contentLines' = contentLines \o HeaderLines(currentUrl)
  /\ \E found \in SUBSET InScopeLinks(currentUrl, domain) :
       /\ Cardinality(found) <= MaxLinks
       /\ inScopeFound' = inScopeFound \cup found
  /\ pc' = "loop"
  /\ UNCHANGED << startUrl, hasCallback, domain, visited, queue, imageCounter,
                  pagesProcessed, currentUrl, imgIdx, linkIdx, image, linkUrl,
                  result, streamClosed, events, pageFetches, failedPages, enqLog,
                  visitLog, depth, imgSeen, imageWrites, contentWrites, dirs,
                  faults >>
  /\ UNCHANGED << serveVars, pairVars >>

\* the page at currentUrl may hold one more <img> element
MoreImages(img) ==
  IF IsGallery(currentUrl)
    THEN imageCounter < MaxImages /\ (img = GalleryImg \/ faults < MaxFaults)
    ELSE imgIdx < MaxImgs

\* the tests without the catch of new URL: a src that does not parse goes on to
\* get an identifier
SkipsImageNoCatch(src, imgUrl) ==
  src = "" \/ StartsWith(imgUrl, "data:")

\* the tests that end an iteration before an identifier is assigned: no src,
\* a src that new URL throws on, a data: URL
SkipsImage(src, imgUrl) ==
  src = "" \/ imgUrl = INVALID \/ StartsWith(imgUrl, "data:")

\* an image loop that does not await the fetch: the download is started and
\* the loop goes on with the next image
ProcessImageNoAwait ==
  /\ pc = "images"
  /\ \E img \in PageImgs(currentUrl) :
       /\ MoreImages(img)
       /\ imgIdx' = imgIdx + 1
       /\ faults' = IF IsGallery(currentUrl) /\ img # GalleryImg THEN faults + 1 ELSE faults
       /\ LET imgUrl == Resolve(img.src, currentUrl)
          IN  IF SkipsImage(img.src, imgUrl)
                THEN /\ image' = [id |-> "", url |-> (IF img.src = "" THEN "" ELSE imgUrl)]
                     /\ UNCHANGED << imageCounter, contentLines, inflight, imgSeen, pc >>
                ELSE LET imageId == Letter(imageCounter)
                     IN  /\ imageCounter' = imageCounter + 1
                         /\ contentLines' = Append(contentLines, ImageLine(imageId, img.alt))
                         /\ image' = [id |-> imageId, url |-> imgUrl]
                         /\ imgSeen' = Append(imgSeen, [id |-> imageId, url |-> imgUrl])
                         /\ inflight' = inflight + 1
                         /\ pc' = "images"
  /\ UNCHANGED << startUrl, hasCallback, domain, visited, queue, pagesProcessed,
                  currentUrl, linkIdx, linkUrl, result, streamClosed, events,
                  pageFetches, failedPages, fetchedPages, enqLog, visitLog,
                  depth, inScopeFound, imageWrites, contentWrites, dirs >>
  /\ UNCHANGED << serveVars, pairVars >>

\* one iteration of the loop over the images, up to the await of the image fetch
ProcessImage ==
  /\ pc = "images"
  /\ \E img \in PageImgs(currentUrl) :
       /\ MoreImages(img)
       /\ imgIdx' = imgIdx + 1
       /\ faults' = IF IsGallery(currentUrl) /\ img # GalleryImg THEN faults + 1 ELSE faults
       /\ LET imgUrl == Resolve(img.src, currentUrl)
          IN  IF SkipsImage(img.src, imgUrl)
                THEN /\ image' = [id |-> "", url |-> (IF img.src = "" THEN "" ELSE imgUrl)]
                     /\ UNCHANGED << imageCounter, contentLines, inflight, imgSeen, pc >>
                ELSE LET imageId == Letter(imageCounter)
                     IN  /\ imageCounter' = imageCounter + 1
                         /\ contentLines' = Append(contentLines, ImageLine(imageId, img.alt))
                         /\ image' = [id |-> imageId, url |-> imgUrl]
                         /\ imgSeen' = Append(imgSeen, [id |-> imageId, url |-> imgUrl])
                         /\ inflight' = inflight + 1
                         /\ pc' = "imgfetch"
  /\ UNCHANGED << startUrl, hasCallback, domain, visited, queue, pagesProcessed,
                  currentUrl, linkIdx, linkUrl, result, streamClosed, events,
                  pageFetches, failedPages, fetchedPages, enqLog, visitLog,
                  depth, inScopeFound, imageWrites, contentWrites, dirs >>
  /\ UNCHANGED << serveVars, pairVars >>

\* an image download failure that is not caught per image: the page's catch
\* takes over and the rest of the page is skipped
ImageResponseAborts ==
  /\ pc = "imgfetch"
  /\ \E outcome \in ImgOutcomes(currentUrl) :
       /\ IsGallery(currentUrl) /\ outcome # "ok" => faults < MaxFaults
       /\ faults' = IF IsGallery(currentUrl) /\ outcome # "ok" THEN faults + 1 ELSE faults
       /\ imageWrites' = IF outcome = "ok"
                           THEN Append(imageWrites, ImagePath(domain, image.id, image.url))
                           ELSE imageWrites
       /\ pc' = IF outcome = "ok" THEN "images" ELSE "loop"
  /\ inflight' = inflight - 1
  /\ UNCHANGED << startUrl, hasCallback, domain, visited, queue, contentLines,
                  imageCounter, pagesProcessed, currentUrl, imgIdx, linkIdx,
                  image, linkUrl, result, streamClosed, events, pageFetches,
                  failedPages, fetchedPages, enqLog, visitLog, depth,
                  inScopeFound, imgSeen, contentWrites, dirs >>
  /\ UNCHANGED << serveVars, pairVars >>

\* the image fetch settles; a 2xx body is written to the images directory;
\* a rejection of fetch or of writeFile is caught by the image's catch
ImageResponse ==
  /\ pc = "imgfetch"
  /\ \E outcome \in ImgOutcomes(currentUrl) :
       /\ IsGallery(currentUrl) /\ outcome # "ok" => faults < MaxFaults
       /\ faults' = IF IsGallery(currentUrl) /\ outcome # "ok" THEN faults + 1 ELSE faults
       /\ imageWrites' = IF outcome = "ok"
                           THEN Append(imageWrites, ImagePath(domain, image.id, image.url))
                           ELSE imageWrites
  /\ inflight' = inflight - 1
  /\ pc' = "images"
  /\ UNCHANGED << startUrl, hasCallback, domain, visited, queue, contentLines,
                  imageCounter, pagesProcessed, currentUrl, imgIdx, linkIdx,
                  image, linkUrl, result, streamClosed, events, pageFetches,
                  failedPages, fetchedPages, enqLog, visitLog, depth,
                  inScopeFound, imgSeen, contentWrites, dirs >>
  /\ UNCHANGED << serveVars, pairVars >>

\* the loop over the images ends
ImagesDone ==
  /\ pc = "images"
  /\ linkIdx' = 0
  /\ image' = NoImage
  /\ pc' = "links"
  /\ UNCHANGED << startUrl, hasCallback, domain, visited, queue, contentLines,
                  imageCounter, pagesProcessed, currentUrl, imgIdx, linkUrl,
                  result, envVars >>
  /\ UNCHANGED << serveVars, pairVars >>

\* the condition without the visited test
ShouldEnqueueVisited(url, dom, vis, q) ==
  /\ ~isExternalOrSocialMediaLink(Hostname(url), dom)
  /\ SameDomainNoHash(url, Hostname(url), dom)
  /\ \A i \in 1..Len(q) : q[i] # url

\* the condition of the first version of the crawler: linkUrl.includes(domain)
ShouldEnqueueSubstring(url, dom, vis, q) ==
  /\ Includes(url, dom)
  /\ ~Includes(url, "#")
  /\ url \notin vis
  /\ \A i \in 1..Len(q) : q[i] # url

\* the condition without the queue.includes test
ShouldEnqueueQueued(url, dom, vis, q) ==
  /\ ~isExternalOrSocialMediaLink(Hostname(url), dom)
  /\ SameDomainNoHash(url, Hostname(url), dom)
  /\ url \notin vis

\* the condition under which a resolved link is pushed to the queue
ShouldEnqueue(url, dom, vis, q) ==
  /\ ~isExternalOrSocialMediaLink(Hostname(url), dom)
  /\ SameDomainNoHash(url, Hostname(url), dom)
  /\ url \notin vis
  /\ \A i \in 1..Len(q) : q[i] # url

\* queue.unshift(linkUrl): the link goes to the front
EnqueueFront(q, url) == << url >> \o q

\* queue.push(linkUrl)
Enqueue(q, url) == Append(q, url)

\* one iteration of the loop over the links
ProcessLink ==
  /\ pc = "links"
  /\ linkIdx < MaxLinks
  /\ \E href \in PageHrefs(currentUrl) :
       LET url == Resolve(href, currentUrl)
       IN  IF href = "" \/ url = INVALID
             THEN /\ linkUrl' = ""
                  /\ UNCHANGED << queue, enqLog, depth, inScopeFound >>
             ELSE /\ linkUrl' = url
                  /\ inScopeFound' = IF InScope(url, domain)
                                       THEN inScopeFound \cup {url}
                                       ELSE inScopeFound
                  /\ IF ShouldEnqueue(url, domain, visited, queue)
                       THEN /\ queue' = Enqueue(queue, url)
                            /\ enqLog' = Append(enqLog, url)
                            /\ depth' = depth @@ (url :> depth[currentUrl] + 1)
                       ELSE UNCHANGED << queue, enqLog, depth >>
  /\ linkIdx' = linkIdx + 1
  /\ UNCHANGED << startUrl, hasCallback, pc, domain, visited, contentLines,
                  imageCounter, pagesProcessed, currentUrl, imgIdx, image,
                  result, streamClosed, events, inflight, pageFetches,
                  failedPages, fetchedPages, visitLog, imgSeen, imageWrites,
                  contentWrites, dirs, faults >>
  /\ UNCHANGED << serveVars, pairVars >>

\* the loop over the links ends: pagesProcessed++
LinksDone ==
  /\ pc = "links"
  /\ pagesProcessed' = pagesProcessed + 1
  /\ linkUrl' = ""
  /\ pc' = "loop"
  /\ UNCHANGED << startUrl, hasCallback, domain, visited, queue, contentLines,
                  imageCounter, currentUrl, imgIdx, linkIdx, image, result,
                  envVars >>
  /\ UNCHANGED << serveVars, pairVars >>

\* a write of the content file that does not wait for the queue to be empty
WriteContentEarly ==
  /\ pc = "loop"
  /\ \E ok \in BOOLEAN :
       IF ok
         THEN /\ contentWrites' = Append(contentWrites, contentLines)
              /\ IF hasCallback
                   THEN pc' = "final" /\ UNCHANGED result
                   ELSE /\ pc' = "done"
                        /\ result' = Success(OutputDir(domain), Cardinality(visited), imageCounter)
         ELSE /\ result' = Failure("ENOSPC: no space left on device, write")
              /\ pc' = "done"
              /\ UNCHANGED contentWrites
  /\ UNCHANGED << startUrl, hasCallback, domain, crawlVars, streamClosed,
                  events, inflight, pageFetches, failedPages, fetchedPages,
                  enqLog, visitLog, depth, inScopeFound, imgSeen, imageWrites,
                  dirs, faults >>
  /\ UNCHANGED << serveVars, pairVars >>

\* the while loop ends and the content file is written; a rejection of
\* writeFile goes to the outer catch
WriteContent ==
  /\ pc = "loop"
  /\ queue = << >>
  /\ \E ok \in BOOLEAN :
       IF ok
         THEN /\ contentWrites' = Append(contentWrites, contentLines)
              /\ IF hasCallback
                   THEN pc' = "final" /\ UNCHANGED result
                   ELSE /\ pc' = "done"
                        /\ result' = Success(OutputDir(domain), Cardinality(visited), imageCounter)
         ELSE /\ result' = Failure("ENOSPC: no space left on device, write")
              /\ pc' = "done"
              /\ UNCHANGED contentWrites
  /\ UNCHANGED << startUrl, hasCallback, domain, crawlVars, streamClosed,
                  events, inflight, pageFetches, failedPages, fetchedPages,
                  enqLog, visitLog, depth, inScopeFound, imgSeen, imageWrites,
                  dirs, faults >>
  /\ UNCHANGED << serveVars, pairVars >>

\* progressCallback(100, "Crawling complete!") and the return; the callback is
\* called, and a throwing callback goes to the outer catch
FinalCallback ==
  /\ pc = "final"
  /\ \E closes \in BOOLEAN :
       IF streamClosed \/ closes
         THEN /\ streamClosed' = TRUE
              /\ result' = Failure("Invalid state: Controller is already closed")
         ELSE /\ result' = Success(OutputDir(domain), Cardinality(visited), imageCounter)
              /\ UNCHANGED streamClosed
  /\ events' = Append(events, [isNaN |-> FALSE, value |-> 100])
  /\ pc' = "done"
  /\ UNCHANGED << startUrl, hasCallback, domain, crawlVars, inflight,
                  pageFetches, failedPages, fetchedPages, enqLog, visitLog,
                  depth, inScopeFound, imgSeen, imageWrites, contentWrites,
                  dirs, faults >>
  /\ UNCHANGED << serveVars, pairVars >>

Next ==
  \/ ParseStart
  \/ MakeDirs
  \/ Dequeue
  \/ ProgressCallback
  \/ IssueFetch
  \/ PageFetchFails
  \/ PageFetched
  \/ PageCleanThrows
  \/ ProcessImage
  \/ ImageResponse
  \/ ImagesDone
  \/ ProcessLink
  \/ LinksDone
  \/ WriteContent
  \/ FinalCallback

Spec == Init /\ [][Next]_vars

\* the crawl when every awaited fetch, mkdir and writeFile settles: the event
\* loop resumes the async function after each await, so a step that can be
\* taken is taken
LiveSpec == Spec /\ WF_vars(Next)

TypeOK ==
  /\ pc \in {"start", "mkdir", "loop", "callback", "fetch", "page", "images",
             "imgfetch", "links", "final", "done"}
  /\ inflight \in 0..1
  /\ imageCounter \in Nat

(***************************************************************************)
(* The crawl-progress route and createZipArchive.  The crawl of a request  *)
(* is seen through its calls of the progress callback and its result.      *)
(***************************************************************************)
\* progress callbacks of one crawl before the final one
MaxProgress == 1

\* ENOENT warnings of one archive
MaxWarnings == 1

\* the url parameters of the requests; "" is a request without the parameter
ReqUrls == {"", "https://ex.io/"}

\* Buffer.from(url).toString("base64")
Base64(u) ==
  CASE u = "https://ex.io/" -> "aHR0cHM6Ly9leC5pby8="
    [] OTHER -> ""

\* .replace(/[/+=]/g, "")
RECURSIVE StripB64From(_, _)
StripB64From(t, i) ==
  IF i > Len(t) THEN ""
  ELSE (IF SubSeq(t, i, i) \in {"/", "+", "="} THEN "" ELSE SubSeq(t, i, i))
          \o StripB64From(t, i + 1)

StripB64(t) == StripB64From(t, 1)

\* the job id of a url
JobId(u) == StripB64(Base64(u))

\* activeJobs.has(jobId)
HasJob(jobs, id) == id \in DOMAIN jobs

\* activeJobs.set(jobId, { controller, progress: 0 })
SetJob(jobs, id, r) == [k \in DOMAIN jobs \cup {id} |-> IF k = id THEN r ELSE jobs[k]]

\* activeJobs.delete(jobId) of the finally block
DeleteJob(jobs, id) == [k \in DOMAIN jobs \ {id} |-> jobs[k]]

\* controller.enqueue of an event on the stream of request r
ControllerEnqueue(r, ev) == [sse EXCEPT ![r] = Append(@, ev)]

\* the crawl of Spec before it starts
CrawlIdle ==
  /\ pc = "start"
  /\ domain = ""
  /\ visited = {}
  /\ queue = << >>
  /\ contentLines = << >>
  /\ imageCounter = 0
  /\ pagesProcessed = 0
  /\ currentUrl = ""
  /\ imgIdx = 0
  /\ linkIdx = 0
  /\ image = NoImage
  /\ linkUrl = ""
  /\ result = Pending
  /\ streamClosed = FALSE
  /\ events = << >>
  /\ inflight = 0
  /\ pageFetches = << >>
  /\ failedPages = {}
  /\ fetchedPages = {}
  /\ enqLog = << >>
  /\ visitLog = << >>
  /\ depth = << >>
  /\ inScopeFound = {}
  /\ imgSeen = << >>
  /\ imageWrites = << >>
  /\ contentWrites = << >>
  /\ dirs = {}
  /\ faults = 0

\* the module was loaded and no request has arrived
ServeInit ==
  /\ startUrl = ""
  /\ hasCallback = TRUE
  /\ ServeIdle
  /\ PairIdle
  /\ CrawlIdle

\* the variables of one crawl, which the serving layer does not hold
oneCrawlVars ==
  << startUrl, hasCallback, pc, domain, crawlVars, result, envVars >>

\* GET: a request without url is answered 400; otherwise the stream is made
\* and start(controller) runs up to the await of mkdir
Get(r) ==
  /\ rpc[r] = "idle"
  /\ \E u \in ReqUrls :
       /\ rurl' = [rurl EXCEPT ![r] = u]
       /\ rpc' = [rpc EXCEPT ![r] = IF u = "" THEN "400" ELSE "mkdir"]
  /\ UNCHANGED << activeJobs, sse, zipPromise, output, warned, progressSent,
                  oneCrawlVars, pairVars >>

\* mkdir of the job directory settles; then either the catch, or the answer
\* "Job already running", or the start of the crawl; the first two run the
\* finally block
StartJob(r) ==
  /\ rpc[r] = "mkdir"
  /\ \E ok \in BOOLEAN :
       IF ~ok
         THEN /\ sse' = ControllerEnqueue(r, "error")
              /\ activeJobs' = DeleteJob(activeJobs, JobId(rurl[r]))
              /\ rpc' = [rpc EXCEPT ![r] = "closed"]
         ELSE IF HasJob(activeJobs, JobId(rurl[r]))
                THEN /\ sse' = ControllerEnqueue(r, "already running")
                     /\ activeJobs' = DeleteJob(activeJobs, JobId(rurl[r]))
                     /\ rpc' = [rpc EXCEPT ![r] = "closed"]
                ELSE /\ activeJobs' = SetJob(activeJobs, JobId(rurl[r]), r)
                     /\ sse' = ControllerEnqueue(r, "starting")
                     /\ rpc' = [rpc EXCEPT ![r] = "crawl"]
  /\ UNCHANGED << rurl, zipPromise, output, warned, progressSent, oneCrawlVars, pairVars >>

\* the crawl of request r calls progressCallback for a page
CrawlProgress(r) ==
  /\ rpc[r] = "crawl"
  /\ progressSent[r] < MaxProgress
  /\ progressSent' = [progressSent EXCEPT ![r] = @ + 1]
  /\ sse' = ControllerEnqueue(r, "progress")
  /\ UNCHANGED << rpc, rurl, activeJobs, zipPromise, output, warned, oneCrawlVars, pairVars >>

\* createZipArchive is not awaited: the complete event is enqueued at once
CrawlReturnsNoAwait(r) ==
  /\ rpc[r] = "crawl"
  /\ \E success \in BOOLEAN :
       IF success
         THEN /\ sse' = [sse EXCEPT ![r] = @ \o << "progress100", "complete" >>]
              /\ zipPromise' = [zipPromise EXCEPT ![r] = "pending"]
              /\ output' = [output EXCEPT ![r] = "open"]
              /\ activeJobs' = DeleteJob(activeJobs, JobId(rurl[r]))
              /\ rpc' = [rpc EXCEPT ![r] = "closed"]
         ELSE /\ sse' = ControllerEnqueue(r, "error")
              /\ activeJobs' = DeleteJob(activeJobs, JobId(rurl[r]))
              /\ rpc' = [rpc EXCEPT ![r] = "closed"]
              /\ UNCHANGED << zipPromise, output >>
  /\ UNCHANGED << rurl, warned, progressSent, oneCrawlVars, pairVars >>

\* crawlWebsite resolves: on success (after its callback of 100) the promise
\* of createZipArchive is made, its executor opens the output stream, registers
\* the handlers and finalizes the archive, and start awaits it; on failure the
\* error event is enqueued and the finally block runs
CrawlReturns(r) ==
  /\ rpc[r] = "crawl"
  /\ \E success \in BOOLEAN :
       IF success
         THEN /\ sse' = ControllerEnqueue(r, "progress100")
              /\ zipPromise' = [zipPromise EXCEPT ![r] = "pending"]
              /\ output' = [output EXCEPT ![r] = "open"]
              /\ rpc' = [rpc EXCEPT ![r] = "zip"]
              /\ UNCHANGED activeJobs
         ELSE /\ sse' = ControllerEnqueue(r, "error")
              /\ activeJobs' = DeleteJob(activeJobs, JobId(rurl[r]))
              /\ rpc' = [rpc EXCEPT ![r] = "closed"]
              /\ UNCHANGED << zipPromise, output >>
  /\ UNCHANGED << rurl, warned, progressSent, oneCrawlVars, pairVars >>

\* a resolve that wins over an earlier settlement
ResolveAlways(p) == "resolved"

\* resolve() of a promise: it settles a pending promise and is without effect
\* on a settled one
PromiseResolve(p) == IF p = "pending" THEN "resolved" ELSE p

\* reject(err) of a promise
PromiseReject(p) == IF p = "pending" THEN "rejected" ELSE p

\* the handler of the archive's 'warning' event
OnWarning(p, code) == IF code = "ENOENT" THEN p ELSE PromiseReject(p)

\* the archive of request r emits 'warning' while it is being written
ArchiveWarning(r) ==
  /\ output[r] = "open"
  /\ \E code \in {"ENOENT", "EMFILE"} :
       /\ code = "ENOENT" => warned[r] < MaxWarnings
       /\ warned' = [warned EXCEPT ![r] = IF code = "ENOENT" THEN @ + 1 ELSE @]
       /\ zipPromise' = [zipPromise EXCEPT ![r] = OnWarning(@, code)]
  /\ UNCHANGED << rpc, rurl, activeJobs, sse, output, progressSent, oneCrawlVars, pairVars >>

\* the archive of request r emits 'error' while it is being written
ArchiveError(r) ==
  /\ output[r] = "open"
  /\ zipPromise' = [zipPromise EXCEPT ![r] = PromiseReject(@)]
  /\ UNCHANGED << rpc, rurl, activeJobs, sse, output, warned, progressSent,
                  oneCrawlVars, pairVars >>

\* the output stream of request r emits 'close'
OutputClose(r) ==
  /\ output[r] = "open"
  /\ output' = [output EXCEPT ![r] = "closed"]
  /\ zipPromise' = [zipPromise EXCEPT ![r] = PromiseResolve(@)]
  /\ UNCHANGED << rpc, rurl, activeJobs, sse, warned, progressSent, oneCrawlVars, pairVars >>

\* the output stream of request r emits 'error' (the file cannot be opened or
\* written).  createZipArchive has no listener for it: the promise is left as
\* it is, and whether 'close' comes after the unhandled 'error' depends on
\* the runtime, so both outcomes are taken
OutputError(r) ==
  /\ output[r] = "open"
  /\ \E closeFollows \in BOOLEAN :
       IF closeFollows
         THEN /\ output' = [output EXCEPT ![r] = "closed"]
              /\ zipPromise' = [zipPromise EXCEPT ![r] = PromiseResolve(@)]
         ELSE /\ output' = [output EXCEPT ![r] = "errored"]
              /\ UNCHANGED zipPromise
  /\ UNCHANGED << rpc, rurl, activeJobs, sse, warned, progressSent, oneCrawlVars, pairVars >>

\* the await of createZipArchive ends: the complete event, or the catch with
\* the error event; then the finally block
ZipSettled(r) ==
  /\ rpc[r] = "zip"
  /\ zipPromise[r] \in {"resolved", "rejected"}
  /\ sse' = ControllerEnqueue(r, IF zipPromise[r] = "resolved" THEN "complete" ELSE "error")
  /\ activeJobs' = DeleteJob(activeJobs, JobId(rurl[r]))
  /\ rpc' = [rpc EXCEPT ![r] = "closed"]
  /\ UNCHANGED << rurl, zipPromise, output, warned, progressSent, oneCrawlVars, pairVars >>

ServeNext ==
  \E r \in Reqs :
     \/ Get(r)
     \/ StartJob(r)
     \/ CrawlProgress(r)
     \/ CrawlReturns(r)
     \/ ArchiveWarning(r)
     \/ ArchiveError(r)
     \/ OutputClose(r)
     \/ OutputError(r)
     \/ ZipSettled(r)

ServeSpec == ServeInit /\ [][ServeNext]_vars

\* the serving layer when the steps of the program are taken: the awaits of
\* start(controller) resume, the crawl returns, and an archive whose output
\* stream is open is finalized and its stream closes; requests, warnings and
\* errors are not bound to come
LiveServeSpec ==
  /\ ServeSpec
  /\ \A r \in Reqs :
        /\ WF_vars(StartJob(r))
        /\ WF_vars(CrawlReturns(r))
        /\ WF_vars(OutputClose(r))
        /\ WF_vars(ZipSettled(r))

(***************************************************************************)
(* Two calls of crawlWebsite in one process.  The variables of a call are  *)
(* locals of the call; the clock and the disk are the process's.  A step   *)
(* of a call runs from one await to the next, and steps of the two calls   *)
(* interleave at the awaits.                                               *)
(***************************************************************************)
\* milliseconds the clock may advance
MaxTicks == 1

\* start URLs of the two calls: two spellings on one domain and another domain
PairUrls == {"https://ex.io", "https://ex.io/", "https://w.ex.io/"}

\* src attributes of the one <img> a page holds, "" for a page without image
PairImgs == {"", "/a.png"}

\* href attributes of the one <a> a page holds, "" for a page without link
PairHrefs == {"", "https://ex.io/"}

\* Date.now() as a string, t milliseconds after the first call
Reading(t) == "170000000000" \o SubSeq("0123456789", t + 1, t + 1)

\* the state before any call
PairInit ==
  /\ startUrl = ""
  /\ hasCallback = FALSE
  /\ ServeIdle
  /\ PairIdle
  /\ CrawlIdle

\* a millisecond passes
Tick ==
  /\ clock < MaxTicks
  /\ clock' = clock + 1
  /\ UNCHANGED << runs, disk, serveVars, oneCrawlVars >>

\* crawlWebsite(u) up to the first await: new URL(u), Date.now(), the paths
Call(c, u) ==
  /\ runs[c].pc = "idle"
  /\ runs' = [runs EXCEPT ![c] =
       IF IsValidURL(u)
         THEN [@ EXCEPT !.pc = "mkdir", !.startUrl = u, !.domain = Hostname(u),
                        !.outputDir = OutputDirAt(Hostname(u), Reading(clock))]
         ELSE [@ EXCEPT !.pc = "done", !.startUrl = u,
                        !.result = Failure("Invalid URL")]]
  /\ UNCHANGED << clock, disk, serveVars, oneCrawlVars >>

\* the two mkdir calls ({recursive: true} accepts a directory that exists) and
\* the initialisation of the call's variables
RunMakeDirs(c) ==
  /\ runs[c].pc = "mkdir"
  /\ \E ok \in BOOLEAN :
       IF ok
         THEN /\ disk' = disk \cup
                   { [path |-> runs[c].outputDir, by |-> c],
                     [path |-> ImagesDirIn(runs[c].outputDir), by |-> c] }
              /\ runs' = [runs EXCEPT ![c] =
                   [@ EXCEPT !.pc = "loop", !.queue = << runs[c].startUrl >>]]
         ELSE /\ runs' = [runs EXCEPT ![c] =
                   [@ EXCEPT !.pc = "done",
                             !.result = Failure("EACCES: permission denied, mkdir")]]
              /\ UNCHANGED disk
  /\ UNCHANGED << clock, serveVars, oneCrawlVars >>

\* queue.shift(), the visited check, visited.add and the call of fetch
RunDequeue(c) ==
  /\ runs[c].pc = "loop"
  /\ runs[c].queue # << >>
  /\ LET url == Head(runs[c].queue)
     IN  runs' = [runs EXCEPT ![c] =
           IF url \in @.visited
             THEN [@ EXCEPT !.queue = Tail(@)]
             ELSE [@ EXCEPT !.queue = Tail(@), !.visited = @ \cup {url},
                            !.currentUrl = url, !.pc = "page"]]
  /\ UNCHANGED << clock, disk, serveVars, oneCrawlVars >>

\* the link loop and pagesProcessed++ of the call r, whose page holds the link href
AfterImages(r, href) ==
  LET url == Resolve(href, r.currentUrl)
      q   == IF href # "" /\ url # INVALID
                /\ ShouldEnqueue(url, r.domain, r.visited, r.queue)
               THEN Enqueue(r.queue, url)
               ELSE r.queue
  IN  [r EXCEPT !.queue = q, !.pagesProcessed = @ + 1, !.pc = "loop",
                !.image = NoImage, !.link = ""]

\* the response of the page fetch: a failure, a page whose cleaning throws, or
\* a page that is cleaned; then the image loop up to its first await, or,
\* without an image, the link loop
RunPage(c) ==
  /\ runs[c].pc = "page"
  /\ \E outcome \in {"fail", "throws", "ok"}, src \in PairImgs, href \in PairHrefs :
       LET r      == runs[c]
           header == r.contentLines \o HeaderLines(r.currentUrl)
           imgUrl == Resolve(src, r.currentUrl)
           id     == Letter(r.imageCounter)
       IN  runs' = [runs EXCEPT ![c] =
             CASE outcome = "fail"   -> [r EXCEPT !.pc = "loop"]
               [] outcome = "throws" -> [r EXCEPT !.pc = "loop", !.contentLines = header]
               [] OTHER ->
                    IF SkipsImage(src, imgUrl)
                      THEN AfterImages([r EXCEPT !.contentLines =
                                          Append(header, TextLine(r.currentUrl))], href)
                      ELSE [r EXCEPT !.contentLines =
                                        header \o << TextLine(r.currentUrl),
                                                     ImageLine(id, "") >>,
                                     !.imageCounter = @ + 1,
                                     !.image = [id |-> id, url |-> imgUrl],
                                     !.link = href,
                                     !.pc = "imgfetch"]]
  /\ UNCHANGED << clock, disk, serveVars, oneCrawlVars >>

\* the response of the image fetch; a failure is caught for the image
RunImageFetched(c) ==
  /\ runs[c].pc = "imgfetch"
  /\ \E ok \in BOOLEAN :
       runs' = [runs EXCEPT ![c] =
         IF ok THEN [@ EXCEPT !.pc = "imgwrite"] ELSE AfterImages(@, @.link)]
  /\ UNCHANGED << clock, disk, serveVars, oneCrawlVars >>

\* writeFile of the image; a failure is caught for the image
RunImageWritten(c) ==
  /\ runs[c].pc = "imgwrite"
  /\ \E ok \in BOOLEAN :
       disk' = IF ok
                 THEN disk \cup { [path |-> ImagePathIn(runs[c].outputDir,
                                                        runs[c].image.id,
                                                        runs[c].image.url),
                                   by |-> c] }
                 ELSE disk
  /\ runs' = [runs EXCEPT ![c] = AfterImages(@, @.link)]
  /\ UNCHANGED << clock, serveVars, oneCrawlVars >>

\* the loop has ended: writeFile of the content file and the return
RunWriteContent(c) ==
  /\ runs[c].pc = "loop"
  /\ runs[c].queue = << >>
  /\ \E ok \in BOOLEAN :
       IF ok
         THEN /\ disk' = disk \cup
                   { [path |-> OutputFileIn(runs[c].outputDir, runs[c].domain),
                      by |-> c] }
              /\ runs' = [runs EXCEPT ![c] =
                   [@ EXCEPT !.pc = "done",
                             !.result = Success(runs[c].outputDir,
                                                Cardinality(runs[c].visited),
                                                runs[c].imageCounter)]]
         ELSE /\ runs' = [runs EXCEPT ![c] =
                   [@ EXCEPT !.pc = "done",
                             !.result = Failure("ENOSPC: no space left on device, write")]]
              /\ UNCHANGED disk
  /\ UNCHANGED << clock, serveVars, oneCrawlVars >>

PairNext ==
  \/ Tick
  \/ \E c \in Runs :
       \/ \E u \in PairUrls : Call(c, u)
       \/ RunMakeDirs(c)
       \/ RunDequeue(c)
       \/ RunPage(c)
       \/ RunImageFetched(c)
       \/ RunImageWritten(c)
       \/ RunWriteContent(c)

PairSpec == PairInit /\ [][PairNext]_vars

(***************************************************************************)
(* Properties.                                                             *)
(***************************************************************************)
\* the elements of a sequence
Range(seq) == {seq[i] : i \in 1..Len(seq)}

\* no element occurs twice in the sequence
NoDup(seq) == \A i, j \in 1..Len(seq) : i < j => seq[i] # seq[j]

\* C1: visited only grows, every URL string is inserted into visited at most
\* once and fetched at most once (a failed URL is not fetched again), a
\* visited URL is never pushed to the queue again, and visited never holds
\* more URLs than were ever enqueued.
C1_VisitedGrowsFetchOnce ==
  /\ [](/\ visited = Range(visitLog)
        /\ NoDup(visitLog)
        /\ NoDup(pageFetches)
        /\ Range(pageFetches) \subseteq visited
        /\ Cardinality(visited) <= Cardinality(Range(enqLog)))
  /\ [][/\ visited \subseteq visited'
        /\ Len(enqLog') > Len(enqLog) => enqLog'[Len(enqLog')] \notin visited]_vars

\* a link to a page that was visited and whose fetch had failed is looked at
\* while a third page is processed
C1_Witness ==
  /\ pc = "links"
  /\ Len(visitLog) >= 3
  /\ linkUrl \in failedPages
  /\ linkUrl \in visited

\* C2: when the crawl ends, visited holds the start URL and every in-scope
\* link found on a 2xx page, hence every URL reachable through such links.
C2_VisitsInScopeClosure ==
  (pc = "done" /\ dirs # {}) => (startUrl \in visited /\ inScopeFound \subseteq visited)

\* C3: the queue is first in, first out: the URLs ever enqueued are, in
\* order, the visited ones followed by the queued ones, and the link distance
\* never decreases along the order of the visits.
C3_BreadthFirst ==
  /\ enqLog = visitLog \o queue
  /\ \A i, j \in 1..Len(visitLog) : i < j => depth[visitLog[i]] <= depth[visitLog[j]]

\* three pages visited, the last one two links away from the start page and
\* discovered after a page one link away
C3_Witness ==
  /\ Len(visitLog) = 3
  /\ depth[visitLog[2]] = 1
  /\ depth[visitLog[3]] = 2

\* C4: every link pushed to the queue has the base domain as its host or a
\* host that ends with a dot and the base domain.
C4_NoSubstringHost ==
  \A i \in 2..Len(enqLog) :
     \/ Hostname(enqLog[i]) = domain
     \/ EndsWith(Hostname(enqLog[i]), "." \o domain)

\* a link to notex.io was looked at in a crawl of ex.io
C4_Witness ==
  /\ pc = "links"
  /\ domain = "ex.io"
  /\ linkUrl = "https://notex.io/"

\* C5: no link whose host is a denylist entry or a subdomain of one is pushed
\* to the queue, so none enters visited other than as the start URL.
C5_NoDenylistedLink ==
  /\ \A i \in 2..Len(enqLog) : ~IsDenylisted(Hostname(enqLog[i]))
  /\ \A i \in 1..Len(queue) : queue[i] # startUrl => ~IsDenylisted(Hostname(queue[i]))
  /\ \A u \in visited \ {startUrl} : ~IsDenylisted(Hostname(u))

\* a link to a subdomain of t.co was looked at in a crawl of t.co
C5_Witness ==
  /\ pc = "links"
  /\ domain = "t.co"
  /\ linkUrl = "https://m.t.co/"
  /\ EndsWith(Hostname(linkUrl), "." \o domain)

\* C6: a link is pushed exactly if it is in scope: every pushed link is in
\* scope, and an in-scope link that was looked at is visited or queued.
C6_FilterIsInScope ==
  /\ \A i \in 2..Len(enqLog) : InScope(enqLog[i], domain)
  /\ (pc = "links" /\ linkUrl # "" /\ InScope(linkUrl, domain))
        => (linkUrl \in visited \/ linkUrl \in Range(queue))

\* C7: pagesVisited of a successful result counts no page whose fetch failed.
C7_PagesVisitedExcludesFailed ==
  (result.state = "returned" /\ result.success)
     => result.pagesVisited <= Cardinality(visited \ failedPages)

\* C8: a failed page fetch leaves content, queue, imageCounter and the result
\* alone and returns to the loop; a crawl with a failed page still succeeds
\* when its content was written and the callback did not throw.
C8_FetchFailureIsolated ==
  /\ [][(pc = "page" /\ currentUrl \in failedPages')
          => /\ pc' = "loop"
             /\ contentLines' = contentLines
             /\ queue' = queue
             /\ imageCounter' = imageCounter
             /\ pagesProcessed' = pagesProcessed
             /\ result' = result]_vars
  /\ []((pc = "done" /\ failedPages # {} /\ contentWrites # << >> /\ ~streamClosed)
          => result.success)

\* a successful crawl in which a page fetched after a failed one was processed
C8_Witness ==
  /\ pc = "done"
  /\ result.success
  /\ \E i, j \in 1..Len(visitLog) :
       i < j /\ visitLog[i] \in failedPages /\ visitLog[j] \in fetchedPages

\* C9: the n-th (from 0) non-data image of a crawl gets the letter at
\* position n mod 26, imageCounter is the number of such images whatever
\* their download did, and a data: image changes neither.
C9_ImageIdsWrap ==
  /\ [](/\ imageCounter = Len(imgSeen)
        /\ \A k \in 1..Len(imgSeen) :
             /\ imgSeen[k].id = SubSeq("ABCDEFGHIJKLMNOPQRSTUVWXYZ", ((k - 1) % 26) + 1, ((k - 1) % 26) + 1)
             /\ ~StartsWith(imgSeen[k].url, "data:"))
  /\ [][(imgIdx' = imgIdx + 1 /\ StartsWith(image'.url, "data:"))
          => (imageCounter' = imageCounter /\ imgSeen' = imgSeen /\ contentLines' = contentLines)]_vars

\* the 27th image got the letter of the first, after a download had failed
C9_Witness ==
  /\ Len(imgSeen) = 27
  /\ imgSeen[1].id = "A"
  /\ imgSeen[27].id = "A"
  /\ Len(imageWrites) < 26

\* C10: no two images of one crawl are written to the same file path.
C10_ImageFilesUnique == NoDup(imageWrites)

\* the lines of the given kind in a sequence of content lines, in order
RECURSIVE LinesOfKind(_, _)
LinesOfKind(lines, k) ==
  IF lines = << >> THEN << >>
  ELSE (IF Head(lines).kind = k THEN << Head(lines) >> ELSE << >>)
          \o LinesOfKind(Tail(lines), k)

\* C11: the reference line of a non-data image is appended in the step that
\* issues its download, content lines are never removed, every image that got
\* an identifier has its line whatever its download did, and the settling of
\* a download, failed or not, changes neither the content nor the queue nor
\* the result and goes on with the images of the page.
C11_ReferenceBeforeDownload ==
  /\ [](/\ Cardinality({i \in 1..Len(contentLines) : contentLines[i].kind = "IMG"})
             = Len(imgSeen)
        /\ Len(imageWrites) <= Len(imgSeen))
  /\ [][/\ Len(contentLines') >= Len(contentLines)
        /\ SubSeq(contentLines', 1, Len(contentLines)) = contentLines
        /\ imgSeen' # imgSeen => (pc' = "imgfetch" /\ imgSeen' = Append(imgSeen, image'))
        /\ pc' = "imgfetch"
             => /\ inflight = 0
                /\ imgSeen' = Append(imgSeen, image')
                /\ contentLines' = Append(contentLines, contentLines'[Len(contentLines')])
                /\ contentLines'[Len(contentLines')].kind = "IMG"
                /\ StartsWith(contentLines'[Len(contentLines')].text, image'.id \o ":")
        /\ pc = "imgfetch"
             => /\ pc' = "images"
                /\ contentLines' = contentLines
                /\ queue' = queue
                /\ result' = result]_vars

\* a second page is having its links looked at after an image download of the
\* crawl had failed, and the failed image's line is in the content
C11_Witness ==
  /\ pc = "links"
  /\ linkUrl # ""
  /\ Len(visitLog) >= 2
  /\ Len(imgSeen) >= 1
  /\ imageWrites = << >>
  /\ contentLines[Len(contentLines)].kind = "IMG"

\* C12: every progress event carries a number in 0..100.
C12_ProgressInRange ==
  \A i \in 1..Len(events) : ~events[i].isNaN /\ events[i].value \in 0..100

\* C13: a successful crawl with a callback ends its events with exactly one
\* 100, no event is above 95 before the queue is empty and the content file
\* is written, and a crawl that returns success:false has emitted no 100.
C13_HundredOnlyOnSuccess ==
  /\ (result.state = "returned" /\ result.success /\ hasCallback)
        => /\ events # << >>
           /\ events[Len(events)].value = 100
           /\ \A i \in 1..(Len(events) - 1) : events[i].value # 100
  /\ \A i \in 1..Len(events) :
        events[i].value > 95
           => (i = Len(events) /\ queue = << >> /\ Len(contentWrites) = 1)
  /\ (result.state = "returned" /\ ~result.success)
        => \A i \in 1..Len(events) : events[i].value # 100

\* the URLs of the URL lines of the content, in order
RECURSIVE UrlsOf(_)
UrlsOf(lines) ==
  IF lines = << >> THEN << >>
  ELSE (IF Head(lines).kind = "URL" THEN << Head(lines).text >> ELSE << >>)
          \o UrlsOf(Tail(lines))

\* the visited URLs whose fetch returned 2xx, in visit order
RECURSIVE FetchedInOrder(_)
FetchedInOrder(log) ==
  IF log = << >> THEN << >>
  ELSE (IF Head(log) \in fetchedPages THEN << Head(log) >> ELSE << >>)
          \o FetchedInOrder(Tail(log))

\* C14: the content is one block per 2xx page in visit order, and each block
\* is the header, the URL line, the cleaned text and then the image lines of
\* the page in the order of its images.
C14_OneBlockPerPage ==
  /\ UrlsOf(contentLines) = FetchedInOrder(visitLog)
  /\ \A i \in 1..Len(contentLines) :
        /\ contentLines[i].kind = "PAGE"
             => /\ i + 2 <= Len(contentLines)
                /\ contentLines[i + 1].kind = "URL"
                /\ contentLines[i + 2].kind = "TEXT"
                /\ contentLines[i + 2].text = contentLines[i + 1].text
        /\ contentLines[i].kind = "URL" => (i > 1 /\ contentLines[i - 1].kind = "PAGE")
        /\ contentLines[i].kind = "TEXT" => (i > 1 /\ contentLines[i - 1].kind = "URL")
        /\ contentLines[i].kind = "IMG"
             => (i > 1 /\ contentLines[i - 1].kind \in {"TEXT", "IMG"})
  /\ \A k \in 1..Len(imgSeen) :
        StartsWith(LinesOfKind(contentLines, "IMG")[k].text, imgSeen[k].id \o ":")

\* C15: the content file is written at most once, in one step taken between
\* two pages with the queue empty and holding all the content lines; no write
\* has happened while a URL is queued or a page is being processed, and a
\* crawl that returns success has written it exactly once.
C15_ContentWrittenOnceAtEnd ==
  /\ [](/\ Len(contentWrites) <= 1
        /\ contentWrites # << >>
             => (queue = << >> /\ pc \in {"final", "done"} /\ contentWrites[1] = contentLines)
        /\ (result.state = "returned" /\ result.success) => Len(contentWrites) = 1)
  /\ [][contentWrites' # contentWrites
          => /\ pc = "loop"
             /\ queue = << >>
             /\ contentWrites = << >>
             /\ contentWrites' = << contentLines >>]_vars

\* a crawl of three pages has ended with success and one write that holds
\* the blocks of the pages
C15_Witness ==
  /\ pc = "done"
  /\ result.success
  /\ Len(visitLog) = 3
  /\ Len(contentWrites) = 1
  /\ Len(LinesOfKind(contentWrites[1], "PAGE")) >= 2

\* C16: crawlWebsite never rejects; what it resolves to is either success
\* with outputDir, pagesVisited and imagesDownloaded or failure with error;
\* an unparseable start URL fails with no directory created and no fetch
\* issued; a failed mkdir and a failed write of the content file both end the
\* crawl with success:false.
C16_AlwaysResolvesToResult ==
  /\ [](/\ result.state \in {"pending", "returned"}
        /\ (pc = "done") <=> (result.state = "returned")
        /\ result.state = "returned"
             => \/ /\ result.success
                   /\ DOMAIN result = {"state", "success", "outputDir",
                                        "pagesVisited", "imagesDownloaded"}
                \/ /\ ~result.success
                   /\ DOMAIN result = {"state", "success", "error"}
        /\ ~IsValidURL(startUrl)
             => /\ dirs = {} /\ pageFetches = << >> /\ inflight = 0
                /\ pc = "done" => ~result.success)
  /\ [][/\ (pc = "mkdir" /\ dirs' = dirs)
             => (result'.state = "returned" /\ ~result'.success)
        /\ (pc = "loop" /\ pc' = "done" /\ contentWrites' = contentWrites)
             => (result'.state = "returned" /\ ~result'.success)]_vars

\* a crawl of two pages has returned success:false because the write of the
\* content file failed
C16_Witness ==
  /\ pc = "done"
  /\ result.state = "returned"
  /\ ~result.success
  /\ dirs # {}
  /\ Len(visitLog) >= 2
  /\ contentWrites = << >>

\* C20: at most one fetch is outstanding; a fetch is issued only when none is
\* outstanding; a URL is dequeued only between two pages, when the page
\* before it has been left with no request outstanding; a page is left for
\* the loop only on a failed fetch, on a throw of the cleaning or of the
\* callback, or when its links are done; the links are looked at only after
\* the images; and a file written is that of the image started last.
C20_StrictlySequential ==
  /\ [](/\ inflight \in 0..1
        /\ inflight = 1 <=> pc \in {"page", "imgfetch"}
        /\ Len(imageWrites) <= Len(imgSeen))
  /\ [][/\ inflight' > inflight => (inflight = 0 /\ pc \in {"fetch", "images"})
        /\ queue' # queue /\ Len(queue') < Len(queue)
             => (pc = "loop" /\ inflight = 0)
        /\ visitLog' # visitLog => (pc = "loop" /\ inflight = 0)
        /\ (pc # "loop" /\ pc' = "loop")
             => pc \in {"mkdir", "callback", "page", "links"}
        /\ (pc # "links" /\ pc' = "links") => (pc = "images" /\ inflight = 0)
        /\ imgSeen' # imgSeen
             => (pc = "images" /\ pc' = "imgfetch" /\ Len(imgSeen') = Len(imgSeen) + 1)
        /\ imageWrites' # imageWrites
             => /\ pc = "imgfetch"
                /\ imageWrites' = Append(imageWrites,
                      ImagePath(domain, imgSeen[Len(imgSeen)].id, imgSeen[Len(imgSeen)].url))]_vars

\* the image of a second page is being downloaded while a URL is queued
C20_Witness ==
  /\ pc = "imgfetch"
  /\ inflight = 1
  /\ Len(imgSeen) = 2
  /\ Len(visitLog) = 2
  /\ queue # << >>

\* C17: the promise of createZipArchive is resolved only with the output
\* stream closed; an ENOENT warning is logged and leaves the promise as it
\* is; any other warning and any error rejects a pending promise; a settled
\* promise never changes, so a rejected one is never resolved afterwards.
C17_ArchivePromise ==
  /\ [](\A r \in Reqs : zipPromise[r] = "resolved" => output[r] = "closed")
  /\ [][\A r \in Reqs :
          /\ warned'[r] # warned[r]
               => (warned'[r] = warned[r] + 1 /\ zipPromise'[r] = zipPromise[r])
          /\ (ArchiveWarning(r) /\ warned'[r] = warned[r] /\ zipPromise[r] = "pending")
               => zipPromise'[r] = "rejected"
          /\ (ArchiveError(r) /\ zipPromise[r] = "pending")
               => zipPromise'[r] = "rejected"
          /\ zipPromise[r] \in {"resolved", "rejected"}
               => zipPromise'[r] = zipPromise[r]
          /\ (zipPromise[r] = "pending" /\ zipPromise'[r] = "resolved")
               => (output[r] = "open" /\ output'[r] = "closed")]_vars

\* an archive logged an ENOENT warning, was rejected, and its output stream
\* closed afterwards
C17_Witness ==
  \E r \in Reqs :
     /\ zipPromise[r] = "rejected"
     /\ output[r] = "closed"
     /\ warned[r] = 1

\* C18: a request whose crawl succeeded and whose archive was rejected ends
\* with an error event and no complete event; a complete event is enqueued
\* only by the step that follows the resolution of createZipArchive.
C18_NoCompleteWithoutArchive ==
  /\ [](\A r \in Reqs :
          /\ (rpc[r] = "closed" /\ zipPromise[r] = "rejected")
               => /\ sse[r][Len(sse[r])] = "error"
                  /\ "complete" \notin Range(sse[r])
          /\ "complete" \in Range(sse[r]) => zipPromise[r] = "resolved")
  /\ [][\A r \in Reqs :
          sse'[r] # sse[r] /\ sse'[r][Len(sse'[r])] = "complete"
             => (rpc[r] = "zip" /\ zipPromise[r] = "resolved")]_vars

\* a crawl succeeded, its archive was rejected, and the stream was closed
\* after the error event
C18_Witness ==
  \E r \in Reqs :
     /\ rpc[r] = "closed"
     /\ zipPromise[r] = "rejected"
     /\ "progress100" \in Range(sse[r])
     /\ sse[r][Len(sse[r])] = "error"

\* C19: at most one crawl per URL is in progress, and while a crawl is in
\* progress the registry holds its job id, set by the request that runs it.
C19_OneCrawlPerUrl ==
  /\ \A r1, r2 \in Reqs :
        (rpc[r1] = "crawl" /\ rpc[r2] = "crawl" /\ rurl[r1] = rurl[r2]) => r1 = r2
  /\ \A r \in Reqs :
        rpc[r] = "crawl"
           => /\ HasJob(activeJobs, JobId(rurl[r]))
              /\ activeJobs[JobId(rurl[r])] = r

\* C23: an image source or a link href that new URL throws on ends only its
\* own iteration: queue, visited, imageCounter and the content are unchanged,
\* no reference line is pushed and no download is started for it, and the
\* loop stays at the images, respectively the links, of the same page.
C23_MalformedUrlIsolated ==
  /\ [](\A k \in 1..Len(imgSeen) : imgSeen[k].url # INVALID)
  /\ [][/\ (imgIdx' = imgIdx + 1 /\ image'.url = INVALID)
             => /\ pc = "images" /\ pc' = "images"
                /\ UNCHANGED << queue, visited, imageCounter, contentLines,
                                imgSeen, inflight, imageWrites, result, currentUrl >>
        /\ (linkIdx' = linkIdx + 1 /\ linkUrl' = "")
             => /\ pc = "links" /\ pc' = "links"
                /\ UNCHANGED << queue, visited, imageCounter, contentLines,
                                enqLog, inflight, result, currentUrl >>]_vars

\* on a second page, an image whose source does not parse was passed over: no
\* identifier was used for it, and the queue still holds a URL
C23_Witness ==
  /\ pc = "images"
  /\ image.url = INVALID
  /\ image.id = ""
  /\ Len(visitLog) = 2
  /\ imageCounter = 0
  /\ queue # << >>

\* C24: every page whose fetch returned 2xx, with or without whitelist
\* elements, has its cleaned text in the content, and once it is left its
\* image loop and its link loop have run to their end (it was counted in
\* pagesProcessed).
C24_FallbackYieldsText ==
  /\ \A u \in fetchedPages : TextLine(u) \in Range(contentLines)
  /\ pc \in {"loop", "final", "done"} => pagesProcessed = Cardinality(fetchedPages)

\* C25: once a page is left, every URL in visited has had its one fetch.
C25_EveryVisitedFetched ==
  /\ NoDup(pageFetches)
  /\ pc \in {"loop", "final", "done"} => visited = Range(pageFetches)

\* C26: the queue never holds a URL twice nor a URL that is in visited, and
\* the URL taken from the queue is never one that is already visited.
C26_QueueDisjointFromVisited ==
  /\ [](NoDup(queue) /\ Range(queue) \cap visited = {})
  /\ [][(pc = "loop" /\ queue # << >> /\ queue' = Tail(queue))
          => (Head(queue) \notin visited /\ visitLog' = Append(visitLog, Head(queue)))]_vars

\* a link to a URL that waits in the queue was looked at a second time and
\* not pushed again
C26_Witness ==
  /\ pc = "links"
  /\ linkIdx = 2
  /\ linkUrl # ""
  /\ linkUrl \in Range(queue)
  /\ Len(queue) = 1
  /\ Len(enqLog) = 2

\* C27: imagesDownloaded of a successful result is the number of image files
\* written during the crawl.
C27_ImagesDownloadedCountsFiles ==
  (result.state = "returned" /\ result.success)
     => result.imagesDownloaded = Len(imageWrites)

\* C28: visited never holds two URLs with the same normalised form, and no
\* two page fetches are issued for the same normalised URL.
C28_NoRespelledVisit ==
  /\ \A u, v \in visited : Href(u) = Href(v) => u = v
  /\ \A i, j \in 1..Len(pageFetches) :
        Href(pageFetches[i]) = Href(pageFetches[j]) => i = j

\* C22: when every awaited operation completes the crawl ends with an empty
\* queue and a returned CrawlResult, and a crawl that ends with success has
\* visited every URL it ever put on the queue, at whatever depth and however
\* many pages it had visited before.
C22_TerminatesWhenExhausted ==
  /\ <>(pc = "done" /\ queue = << >> /\ result.state = "returned")
  /\ [](pc = "done" => queue = << >>)
  /\ []((pc = "done" /\ result.success) => Range(enqLog) = visited)
  /\ [][(pc = "loop" /\ pc' \in {"final", "done"}) => queue = << >>]_vars

\* a crawl that returned success after it visited three pages, the last one
\* two links away from the start
C22_Witness ==
  /\ pc = "done"
  /\ result.success
  /\ Cardinality(visited) = 3
  /\ \E u \in visited : depth[u] = 2

\* C21: two concurrent calls never make the same directory nor write the
\* same file, and have different output directories.
C21_RunsShareNothing ==
  /\ \A e, f \in disk : e.path = f.path => e.by = f.by
  /\ \A c, d \in Runs :
        (c # d /\ runs[c].outputDir # "") => runs[c].outputDir # runs[d].outputDir

\* C29: a request that awaits createZipArchive eventually has the promise
\* settled and its stream closed by the finally block.
C29_ArchiveAlwaysSettles ==
  \A r \in Reqs :
     (rpc[r] = "zip") ~> (rpc[r] = "closed" /\ zipPromise[r] # "pending")

====
